---------------------------- MODULE Spec2Model ----------------------------
(***************************************************************************)
(* PyChemistry: the elemental speller (spell, build_spelling_graph,        *)
(* find_all_paths, Graph) and the molecular-mass scanner                   *)
(* (PeriodicTable.calculate_relative_molecular_mass).                      *)
(*                                                                         *)
(* A character is its code point (an integer): 'c' is 99, 'C' is 67,       *)
(* '2' is 50.  A Python str is a sequence of characters, a tuple or a list *)
(* is a sequence, a set is a set, a dict is a function on its keys.        *)
(***************************************************************************)
EXTENDS Integers, Sequences, FiniteSets, TLC

(***************************************************************************)
(* Bounds of the model and the inputs drawn.                               *)
(***************************************************************************)
\* Longest word given to spell / build_spelling_graph.
MaxLen == 4
\* Longest formula given to calculate_relative_molecular_mass.
MaxFormulaLen == 4

\* c o a O 2: "co" spells as Co and as C,O; 'a' is no symbol alone (a dead
\* end) but ends Ca and starts Ac; 'O' exercises case; '2' is a digit.
Alphabet == {99, 111, 97, 79, 50}
\* H L i e 2 and the subscript two (U+2082): H and Li are in the mass table,
\* He, L, i and e are not; str.isdigit accepts both digits, int() only '2'.
FormulaAlphabet == {72, 76, 105, 101, 50, 8322}

SeqsUpTo(A, n) == UNION {[1..k -> A] : k \in 0..n}
Words == SeqsUpTo(Alphabet, MaxLen)
Formulas == SeqsUpTo(FormulaAlphabet, MaxFormulaLen)

(***************************************************************************)
(* str methods, on ASCII.                                                  *)
(***************************************************************************)
\* str.isdigit(): the ASCII digits and, of the other characters it accepts,
\* the subscript two.
IsDigit(c) == c \in 48..57 \/ c = 8322
\* int(c) of one character: ValueError unless it is a decimal digit.
IntOf(c) == IF c \in 48..57 THEN [raised |-> FALSE, value |-> c - 48]
          ELSE [raised |-> TRUE, value |-> 0]
IsLower(c) == c \in 97..122
Upper(c) == IF c \in 97..122 THEN c - 32 ELSE c
Lower(c) == IF c \in 65..90 THEN c + 32 ELSE c
\* str.capitalize(): first character upper case, the rest lower case.
Capitalize(s) == [k \in 1..Len(s) |-> IF k = 1 THEN Upper(s[k]) ELSE Lower(s[k])]

\* Python's order on str: by code point, a proper prefix is smaller.
RECURSIVE StrLess(_, _)
StrLess(a, b) ==
    IF a = <<>> THEN b # <<>>
    ELSE IF b = <<>> THEN FALSE
    ELSE IF Head(a) # Head(b) THEN Head(a) < Head(b)
    ELSE StrLess(Tail(a), Tail(b))

\* Python's order on tuples of str: lexicographic, a proper prefix is smaller.
RECURSIVE TupleLess(_, _)
TupleLess(s, t) ==
    IF s = <<>> THEN t # <<>>
    ELSE IF t = <<>> THEN FALSE
    ELSE IF Head(s) # Head(t) THEN StrLess(Head(s), Head(t))
    ELSE TupleLess(Tail(s), Tail(t))

(***************************************************************************)
(* ELEMENTS, the built-in table of 118 symbols.                            *)
(***************************************************************************)
ELEMENTS == {
    <<72>>, <<72, 101>>, <<76, 105>>, <<66, 101>>, <<66>>, <<67>>,   \* H He Li Be B C
    <<78>>, <<79>>, <<70>>, <<78, 101>>, <<78, 97>>, <<77, 103>>,   \* N O F Ne Na Mg
    <<65, 108>>, <<83, 105>>, <<80>>, <<83>>, <<67, 108>>, <<65, 114>>,   \* Al Si P S Cl Ar
    <<75>>, <<67, 97>>, <<83, 99>>, <<84, 105>>, <<86>>, <<67, 114>>,   \* K Ca Sc Ti V Cr
    <<77, 110>>, <<70, 101>>, <<67, 111>>, <<78, 105>>, <<67, 117>>, <<90, 110>>,   \* Mn Fe Co Ni Cu Zn
    <<71, 97>>, <<71, 101>>, <<65, 115>>, <<83, 101>>, <<66, 114>>, <<75, 114>>,   \* Ga Ge As Se Br Kr
    <<82, 98>>, <<83, 114>>, <<89>>, <<90, 114>>, <<78, 98>>, <<77, 111>>,   \* Rb Sr Y Zr Nb Mo
    <<84, 99>>, <<82, 117>>, <<82, 104>>, <<80, 100>>, <<65, 103>>, <<67, 100>>,   \* Tc Ru Rh Pd Ag Cd
    <<73, 110>>, <<83, 110>>, <<83, 98>>, <<84, 101>>, <<73>>, <<88, 101>>,   \* In Sn Sb Te I Xe
    <<67, 115>>, <<66, 97>>, <<76, 97>>, <<67, 101>>, <<80, 114>>, <<78, 100>>,   \* Cs Ba La Ce Pr Nd
    <<80, 109>>, <<83, 109>>, <<69, 117>>, <<71, 100>>, <<84, 98>>, <<68, 121>>,   \* Pm Sm Eu Gd Tb Dy
    <<72, 111>>, <<69, 114>>, <<84, 109>>, <<89, 98>>, <<76, 117>>, <<72, 102>>,   \* Ho Er Tm Yb Lu Hf
    <<84, 97>>, <<87>>, <<82, 101>>, <<79, 115>>, <<73, 114>>, <<80, 116>>,   \* Ta W Re Os Ir Pt
    <<65, 117>>, <<72, 103>>, <<84, 108>>, <<80, 98>>, <<66, 105>>, <<80, 111>>,   \* Au Hg Tl Pb Bi Po
    <<65, 116>>, <<82, 110>>, <<70, 114>>, <<82, 97>>, <<65, 99>>, <<84, 104>>,   \* At Rn Fr Ra Ac Th
    <<80, 97>>, <<85>>, <<78, 112>>, <<80, 117>>, <<65, 109>>, <<67, 109>>,   \* Pa U Np Pu Am Cm
    <<66, 107>>, <<67, 102>>, <<69, 115>>, <<70, 109>>, <<77, 100>>, <<78, 111>>,   \* Bk Cf Es Fm Md No
    <<76, 114>>, <<82, 102>>, <<68, 98>>, <<83, 103>>, <<66, 104>>, <<72, 115>>,   \* Lr Rf Db Sg Bh Hs
    <<77, 116>>, <<68, 115>>, <<82, 103>>, <<67, 110>>, <<78, 104>>, <<70, 108>>,   \* Mt Ds Rg Cn Nh Fl
    <<77, 99>>, <<76, 118>>, <<84, 115>>, <<79, 103>>   \* Mc Lv Ts Og
}

(***************************************************************************)
(* Node and Graph.  None, the key of both dicts that stands for "no        *)
(* parent" and "no child", is modelled as a Node-shaped value no token can *)
(* equal (a token's value is never empty).                                 *)
(***************************************************************************)
Node(value, position) == [value |-> value, position |-> position]
None == [value |-> <<>>, position |-> -1]

\* defaultdict(set): a missing key reads as the empty set.
Get(d, k) == IF k \in DOMAIN d THEN d[k] ELSE {}
\* d[k].add(v)
AddTo(d, k, v) == [x \in DOMAIN d \cup {k} |-> IF x = k THEN Get(d, k) \cup {v} ELSE d[x]]

\* Graph.__init__
Graph == [parents_of |-> <<>>, children_of |-> <<>>]

\* Graph.add_edge with its two guards dropped.
AddEdgeUnguarded(graph, parent, child) ==
    [parents_of |-> AddTo(graph.parents_of, child, parent),
     children_of |-> AddTo(graph.children_of, parent, child)]

\* Graph.add_edge
AddEdge(graph, parent, child) ==
    [parents_of |-> IF parent # None THEN AddTo(graph.parents_of, child, parent)
                    ELSE graph.parents_of,
     children_of |-> IF child # None THEN AddTo(graph.children_of, parent, child)
                     ELSE graph.children_of]

\* Graph.firsts
firsts(graph) == Get(graph.children_of, None)

\* "Return nodes with no children", read as the nodes that are no key of
\* _children_of.
lastsChildless(graph) ==
    {n \in (UNION {graph.children_of[k] : k \in DOMAIN graph.children_of}) :
        Get(graph.children_of, n) = {}}

\* Graph.lasts
lasts(graph) == Get(graph.parents_of, None)

(***************************************************************************)
(* build_spelling_graph, as the function it computes.  st is the pair of   *)
(* the graph and the set `processed` the nested pop_root closes over.      *)
(***************************************************************************)
\* The memo forgotten: every arrival recurses.
AlwaysRecurse(remaining, processed) == TRUE

\* `remaining not in processed`, over the set of processed suffixes.
NotProcessed(remaining, processed) == remaining \notin processed

\* position + 1, wrongly, after a double root.
AfterDoubleByOne(position) == position + 1

\* pop_root(remaining[1:], position + 1, ...)
AfterSingle(position) == position + 1

\* pop_root(remaining[2:], position + 2, ...)
AfterDouble(position) == position + 2

RECURSIVE PopRoot(_, _, _, _, _)
\* pop_root
PopRoot(st, remaining, position, previous_root, symbols) ==
    IF remaining = <<>>
    THEN [st EXCEPT !.graph = AddEdge(@, previous_root, None)]
    ELSE
      LET single_root == Node(SubSeq(remaining, 1, 1), position)
          s1 == IF Capitalize(single_root.value) \in symbols
                THEN LET e == [st EXCEPT !.graph = AddEdge(@, previous_root, single_root)]
                     IN  IF NotProcessed(remaining, e.processed)
                         THEN PopRoot(e, SubSeq(remaining, 2, Len(remaining)),
                                      AfterSingle(position), single_root, symbols)
                         ELSE e
                ELSE st
          double_root == Node(SubSeq(remaining, 1, 2), position)
          s2 == IF Len(remaining) >= 2 /\ Capitalize(double_root.value) \in symbols
                THEN LET e == [s1 EXCEPT !.graph = AddEdge(@, previous_root, double_root)]
                     IN  IF NotProcessed(remaining, e.processed)
                         THEN PopRoot(e, SubSeq(remaining, 3, Len(remaining)),
                                      AfterDouble(position), double_root, symbols)
                         ELSE e
                ELSE s1
      IN  [s2 EXCEPT !.processed = @ \cup {remaining}]

\* build_spelling_graph(word, graph, symbols): processed = set(); pop_root(word)
build_spelling_graph(word, graph, symbols) ==
    PopRoot([graph |-> graph, processed |-> {}], word, 0, None, symbols).graph

(***************************************************************************)
(* find_all_paths.  A set is iterated in some order; the order taken here  *)
(* is a fixed one, and spell sorts what comes out.                         *)
(***************************************************************************)
RECURSIVE SetToSeq(_)
SetToSeq(S) == IF S = {} THEN <<>>
               ELSE LET x == CHOOSE y \in S : TRUE IN <<x>> \o SetToSeq(S \ {x})

RECURSIVE Concat(_)
Concat(ss) == IF ss = <<>> THEN <<>> ELSE Head(ss) \o Concat(Tail(ss))

InSeq(x, s) == \E k \in 1..Len(s) : s[k] = x

RECURSIVE find_all_paths(_, _, _, _)
find_all_paths(parents_to_children, start, end, path) ==
    LET p == Append(path, start) IN
    IF start = end THEN <<p>>
    ELSE IF start \notin DOMAIN parents_to_children THEN <<>>
    ELSE LET nodes == SetToSeq(parents_to_children[start]) IN
         Concat([k \in 1..Len(nodes) |->
                    IF ~InSeq(nodes[k], p)
                    THEN find_all_paths(parents_to_children, nodes[k], end, p)
                    ELSE <<>>])

(***************************************************************************)
(* spell                                                                   *)
(***************************************************************************)
\* word.replace(digit, '', 1): the first occurrence only.
ReplaceFirst(word, digit) ==
    IF \E k \in 1..Len(word) : word[k] = digit
    THEN LET k == CHOOSE j \in 1..Len(word) :
                     word[j] = digit /\ \A h \in 1..(j - 1) : word[h] # digit
         IN  SubSeq(word, 1, k - 1) \o SubSeq(word, k + 1, Len(word))
    ELSE word

\* word.replace(digit, '')
Replace(word, digit) == SelectSeq(word, LAMBDA c : c # digit)

\* digits = list('1234567890')
digits == <<49, 50, 51, 52, 53, 54, 55, 56, 57, 48>>

\* for digit in digits: word = word.replace(digit, '')
RECURSIVE StripDigitsFrom(_, _)
StripDigitsFrom(word, k) ==
    IF k > Len(digits) THEN word ELSE StripDigitsFrom(Replace(word, digits[k]), k + 1)

StripDigits(word) == StripDigitsFrom(word, 1)

\* sorted(list): ascending, the reverse flag forgotten.
RECURSIVE InsertAsc(_, _)
InsertAsc(x, s) ==
    IF s = <<>> THEN <<x>>
    ELSE IF TupleLess(Head(s), x) THEN <<Head(s)>> \o InsertAsc(x, Tail(s))
    ELSE <<x>> \o s

RECURSIVE SortedAsc(_)
SortedAsc(s) == IF s = <<>> THEN <<>> ELSE InsertAsc(Head(s), SortedAsc(Tail(s)))

\* sorted(list, reverse=True): a list in descending order of its entries.
RECURSIVE InsertDesc(_, _)
InsertDesc(x, s) ==
    IF s = <<>> THEN <<x>>
    ELSE IF TupleLess(x, Head(s)) THEN <<Head(s)>> \o InsertDesc(x, Tail(s))
    ELSE <<x>> \o s

RECURSIVE SortedReverseOf(_)
SortedReverseOf(s) == IF s = <<>> THEN <<>> ELSE InsertDesc(Head(s), SortedReverseOf(Tail(s)))

SortedReverse(s) == SortedReverseOf(s)

\* tuple(node.value.capitalize() for node in path)
Render(path) == [k \in 1..Len(path) |-> Capitalize(path[k].value)]

\* The list comprehension of spell, before it is sorted.  find_all_paths is
\* called without a path argument: path is the list its default is bound to.
Spellings(g, path) ==
    LET fs == SetToSeq(firsts(g))
        ls == SetToSeq(lasts(g))
        all == Concat([a \in 1..Len(fs) |->
                  Concat([b \in 1..Len(ls) |->
                      find_all_paths(g.children_of, fs[a], ls[b], path)])])
    IN  [k \in 1..Len(all) |-> Render(all[k])]

\* The graph spell builds: g = Graph(); build_spelling_graph(word, g).  The
\* symbols argument of spell is not handed on, so the default ELEMENTS is used.
SpellGraph(word, symbols) == build_spelling_graph(StripDigits(word), Graph, ELEMENTS)

\* The body of spell, for a call that misses the cache.
SpellBody(word, symbols, path) ==
    SortedReverse(Spellings(SpellGraph(word, symbols), path))

(***************************************************************************)
(* The mass table and its two readers.                                     *)
(***************************************************************************)
\* PeriodicTable.mendeleev_table, its relative_atomic_mass entries: H, Li, Be.
mendeleev_table == (<<72>> :> 1) @@ (<<76, 105>> :> 7) @@ (<<66, 101>> :> 9)

\* PeriodicTable.get_relative_atomic_mass: 0 on KeyError.
get_relative_atomic_mass(element) ==
    IF element \in DOMAIN mendeleev_table THEN mendeleev_table[element] ELSE 0

\* A lookup that answers 0 for an unknown element instead of raising.
LookupOrZero(element) == [raised |-> FALSE, mass |-> get_relative_atomic_mass(element)]

\* self.mendeleev_table[element]['relative_atomic_mass']: raises KeyError
\* for an element that is no key.
Lookup(element) ==
    IF element \in DOMAIN mendeleev_table
    THEN [raised |-> FALSE, mass |-> mendeleev_table[element]]
    ELSE [raised |-> TRUE, mass |-> 0]

(***************************************************************************)
(* State.                                                                  *)
(***************************************************************************)
VARIABLES
    \* spell and its functools.cache
    cache,       \* the memo: call arguments -> the list returned
    pc,          \* "idle", "called" (inside spell), "returned"
    args,        \* the arguments of the call in flight, or of the last one
    ret,         \* the value the last call returned
    hit,         \* history: the last call was served from the memo
    g,           \* the Graph the last cache miss built (spell's local g)
    path_default, \* the list bound once to the default path=[] of find_all_paths
    called,      \* history: the arguments of every call that has returned
    builds,      \* history: how many times spell built a graph
    firstRet,    \* history: arguments -> what the first call with them returned
    \* build_spelling_graph, step by step
    bword,       \* its word
    graph,       \* its graph
    processed,   \* the set pop_root closes over
    stack,       \* the frames of pop_root, innermost last
    expansions,  \* history: suffix -> arrivals at it that recursed
    arrived,     \* history: the non-empty suffixes pop_root was entered with
    \* calculate_relative_molecular_mass
    formule, i, total_mass, element,
    mpc,         \* "loop", "returned", "raised"
    error,       \* "", or the exception raised: "KeyError", "ValueError"
    tokens       \* history: the <<element, count>> pairs added to total_mass

spellVars == <<cache, pc, args, ret, hit, g, path_default, called, builds, firstRet>>
buildVars == <<bword, graph, processed, stack, expansions, arrived>>
massVars == <<formule, i, total_mass, element, mpc, error, tokens>>
vars == <<spellVars, buildVars, massVars>>

(***************************************************************************)
(* spell(word, symbols=ELEMENTS) under @cache.                             *)
(***************************************************************************)
\* The symbols argument: left out, or given.
Omitted == [passed |-> FALSE, set |-> {}]
\* A symbol set of the caller's: C, O and Oa.
CustomSymbols == [passed |-> TRUE, set |-> {<<67>>, <<79>>, <<79, 97>>}]
SymbolArgs == {Omitted, CustomSymbols}
\* The value the parameter is bound to.
SymbolsOf(s) == IF s.passed THEN s.set ELSE ELEMENTS

\* The words of the cache sessions: co, c2o, the empty word, 2, ca.
CacheWords == {<<99, 111>>, <<99, 50, 111>>, <<>>, <<50>>, <<99, 97>>}

\* A key made of the word after digit stripping.
KeyStripped(a) == [a EXCEPT !.word = StripDigits(a.word)]

\* functools.cache keys an entry by the call's arguments as they are passed.
CacheKey(a) == a

\* A memo of one entry (lru_cache(maxsize=1)).
CachePutOne(c, k, v) == (k :> v)

\* The memo is unbounded: an entry is added and none is evicted.
CachePut(c, k, v) == [x \in DOMAIN c \cup {k} |-> IF x = k THEN v ELSE c[x]]

NoteFirst(f, a, v) == IF a \in DOMAIN f THEN f ELSE [x \in DOMAIN f \cup {a} |-> IF x = a THEN v ELSE f[x]]

SpellInit(a, p) ==
    /\ cache = <<>>
    /\ pc = p
    /\ args = a
    /\ ret = <<>>
    /\ hit = FALSE
    /\ g = Graph
    /\ path_default = <<>>
    /\ called = {}
    /\ builds = 0
    /\ firstRet = <<>>

\* The caller: spell(w, s), or spell(w) when s is Omitted.
Call(w, s) ==
    /\ pc \in {"idle", "returned"}
    /\ pc' = "called"
    /\ args' = [word |-> w, symbols |-> s]
    /\ UNCHANGED <<cache, ret, hit, g, path_default, called, builds, firstRet>>
    /\ UNCHANGED <<buildVars, massVars>>

\* A call whose arguments are in the memo: the stored list is returned.
SpellHit ==
    /\ pc = "called"
    /\ CacheKey(args) \in DOMAIN cache
    /\ ret' = cache[CacheKey(args)]
    /\ hit' = TRUE
    /\ pc' = "returned"
    /\ called' = called \cup {args}
    /\ firstRet' = NoteFirst(firstRet, args, ret')
    /\ UNCHANGED <<cache, args, g, path_default, builds>>
    /\ UNCHANGED <<buildVars, massVars>>

\* A call whose arguments are not in the memo: the body runs, the list is
\* stored and returned.  find_all_paths binds a new list (path = path +
\* [start]) and never writes the one its default holds.
SpellMiss ==
    /\ pc = "called"
    /\ CacheKey(args) \notin DOMAIN cache
    /\ g' = SpellGraph(args.word, SymbolsOf(args.symbols))
    /\ ret' = SpellBody(args.word, SymbolsOf(args.symbols), path_default)
    /\ cache' = CachePut(cache, CacheKey(args), ret')
    /\ builds' = builds + 1
    /\ hit' = FALSE
    /\ pc' = "returned"
    /\ called' = called \cup {args}
    /\ firstRet' = NoteFirst(firstRet, args, ret')
    /\ UNCHANGED <<args, path_default>>
    /\ UNCHANGED <<buildVars, massVars>>

(***************************************************************************)
(* build_spelling_graph(word, graph) step by step: one frame of `stack`    *)
(* per active call of pop_root, `at` the place the call has reached.       *)
(***************************************************************************)
Frame(remaining, position, previous_root) ==
    [remaining |-> remaining, position |-> position, previous_root |-> previous_root,
     at |-> "single", recursed |-> FALSE]

Top == stack[Len(stack)]
Pop == SubSeq(stack, 1, Len(stack) - 1)
\* The running call moves on to `at`, having made a recursive call or not.
Moved(at, recursed) ==
    [stack EXCEPT ![Len(stack)] = [@ EXCEPT !.at = at, !.recursed = @ \/ recursed]]
Count(f, k) == IF k \in DOMAIN f THEN f[k] ELSE 0
Bump(f, k) == [x \in DOMAIN f \cup {k} |-> IF x = k THEN Count(f, k) + 1 ELSE f[x]]

BuildInit(w) ==
    /\ bword = w
    /\ graph = Graph
    /\ processed = {}
    /\ stack = <<Frame(w, 0, None)>>
    /\ expansions = <<>>
    /\ arrived = IF w = <<>> THEN {} ELSE {w}

BuildIdle ==
    /\ bword = <<>>
    /\ graph = Graph
    /\ processed = {}
    /\ stack = <<>>
    /\ expansions = <<>>
    /\ arrived = {}

\* if remaining == '': graph.add_edge(previous_root, None); return
PopRootEmpty ==
    /\ stack # <<>>
    /\ Top.remaining = <<>>
    /\ graph' = AddEdge(graph, Top.previous_root, None)
    /\ stack' = Pop
    /\ UNCHANGED <<bword, processed, expansions, arrived>>
    /\ UNCHANGED <<spellVars, massVars>>

\* The single root: the edge, and the recursive call unless the suffix is
\* processed.
PopRootSingle ==
    /\ stack # <<>>
    /\ Top.remaining # <<>>
    /\ Top.at = "single"
    /\ LET remaining == Top.remaining
           single_root == Node(SubSeq(remaining, 1, 1), Top.position)
           valid == Capitalize(single_root.value) \in ELEMENTS
           recurse == valid /\ NotProcessed(remaining, processed)
           rest == SubSeq(remaining, 2, Len(remaining))
       IN  /\ graph' = IF valid THEN AddEdge(graph, Top.previous_root, single_root)
                       ELSE graph
           /\ stack' = IF recurse
                       THEN Append(Moved("double", TRUE),
                                   Frame(rest, AfterSingle(Top.position), single_root))
                       ELSE Moved("double", FALSE)
           /\ expansions' = IF recurse THEN Bump(expansions, remaining) ELSE expansions
           /\ arrived' = IF recurse /\ rest # <<>> THEN arrived \cup {rest} ELSE arrived
    /\ UNCHANGED <<bword, processed>>
    /\ UNCHANGED <<spellVars, massVars>>

\* The double root, when two characters remain: the edge, and the recursive
\* call unless the suffix is processed.
PopRootDouble ==
    /\ stack # <<>>
    /\ Top.at = "double"
    /\ LET remaining == Top.remaining
           double_root == Node(SubSeq(remaining, 1, 2), Top.position)
           valid == Len(remaining) >= 2 /\ Capitalize(double_root.value) \in ELEMENTS
           recurse == valid /\ NotProcessed(remaining, processed)
           rest == SubSeq(remaining, 3, Len(remaining))
       IN  /\ graph' = IF valid THEN AddEdge(graph, Top.previous_root, double_root)
                       ELSE graph
           /\ stack' = IF recurse
                       THEN Append(Moved("mark", TRUE),
                                   Frame(rest, AfterDouble(Top.position), double_root))
                       ELSE Moved("mark", FALSE)
           /\ expansions' = IF recurse /\ ~Top.recursed THEN Bump(expansions, remaining)
                            ELSE expansions
           /\ arrived' = IF recurse /\ rest # <<>> THEN arrived \cup {rest} ELSE arrived
    /\ UNCHANGED <<bword, processed>>
    /\ UNCHANGED <<spellVars, massVars>>

\* processed.add(remaining), and the call returns.
PopRootMark ==
    /\ stack # <<>>
    /\ Top.at = "mark"
    /\ processed' = processed \cup {Top.remaining}
    /\ stack' = Pop
    /\ UNCHANGED <<bword, graph, expansions, arrived>>
    /\ UNCHANGED <<spellVars, massVars>>

(***************************************************************************)
(* calculate_relative_molecular_mass(formule), one step per iteration of   *)
(* its while loop.  i counts from 0 as in the code; formule[i] of the code *)
(* is formule[i + 1] here.  total_mass is a float in the code, and whole.  *)
(***************************************************************************)
MassInit(f) ==
    /\ formule = f
    /\ i = 0
    /\ total_mass = 0
    /\ element = <<>>
    /\ mpc = "loop"
    /\ error = ""
    /\ tokens = <<>>

\* What one iteration reads before the lookup: the element, the count (the
\* result of int(), which may raise) and the index of the token's last
\* character.
Scan ==
    LET two == i + 1 < Len(formule) /\ IsLower(formule[i + 2])
        el == IF two THEN <<formule[i + 1], formule[i + 2]>> ELSE <<formule[i + 1]>>
        j == IF two THEN i + 1 ELSE i
        counted == j + 1 < Len(formule) /\ IsDigit(formule[j + 2])
    IN  [element |-> el,
         count |-> IF counted THEN IntOf(formule[j + 2]) ELSE [raised |-> FALSE, value |-> 1],
         last |-> IF counted THEN j + 1 ELSE j]

\* An iteration that raises nothing: the mass is added and the index moves
\* past the token.
MassIterate ==
    /\ mpc = "loop"
    /\ i < Len(formule)
    /\ ~Scan.count.raised
    /\ ~Lookup(Scan.element).raised
    /\ element' = Scan.element
    /\ total_mass' = total_mass + Lookup(Scan.element).mass * Scan.count.value
    /\ i' = Scan.last + 1
    /\ tokens' = Append(tokens, <<Scan.element, Scan.count.value>>)
    /\ UNCHANGED <<formule, mpc, error>>
    /\ UNCHANGED <<spellVars, buildVars>>

\* An iteration whose int(formule[i + 1]) raises ValueError, before the
\* lookup is reached: `except Exception as e: raise e` hands it to the caller.
MassValueError ==
    /\ mpc = "loop"
    /\ i < Len(formule)
    /\ Scan.count.raised
    /\ element' = Scan.element
    /\ mpc' = "raised"
    /\ error' = "ValueError"
    /\ UNCHANGED <<formule, i, total_mass, tokens>>
    /\ UNCHANGED <<spellVars, buildVars>>

\* An iteration whose lookup raises KeyError: `except Exception as e:
\* raise e` hands it to the caller.
MassKeyError ==
    /\ mpc = "loop"
    /\ i < Len(formule)
    /\ ~Scan.count.raised
    /\ Lookup(Scan.element).raised
    /\ element' = Scan.element
    /\ mpc' = "raised"
    /\ error' = "KeyError"
    /\ UNCHANGED <<formule, i, total_mass, tokens>>
    /\ UNCHANGED <<spellVars, buildVars>>

\* while i < len(formule) is false: return total_mass
MassReturn ==
    /\ mpc = "loop"
    /\ i >= Len(formule)
    /\ mpc' = "returned"
    /\ UNCHANGED <<formule, i, total_mass, element, error, tokens>>
    /\ UNCHANGED <<spellVars, buildVars>>

MassIdle ==
    /\ formule = <<>>
    /\ i = 0
    /\ total_mass = 0
    /\ element = <<>>
    /\ mpc = "returned"
    /\ error = ""
    /\ tokens = <<>>

(***************************************************************************)
(* Specifications.                                                         *)
(***************************************************************************)
\* One call of spell, on every word and symbols argument.
Init ==
    /\ \E w \in Words, s \in SymbolArgs : SpellInit([word |-> w, symbols |-> s], "called")
    /\ BuildIdle
    /\ MassIdle

Next == SpellMiss

Spec == Init /\ [][Next]_vars

\* Any sequence of calls of spell over CacheWords.
InitCache ==
    /\ SpellInit([word |-> <<>>, symbols |-> Omitted], "idle")
    /\ BuildIdle
    /\ MassIdle

NextCache ==
    \/ \E w \in CacheWords, s \in SymbolArgs : Call(w, s)
    \/ SpellHit
    \/ SpellMiss

SpecCache == InitCache /\ [][NextCache]_vars

\* One run of build_spelling_graph, on every word.
InitBuild ==
    /\ SpellInit([word |-> <<>>, symbols |-> Omitted], "idle")
    /\ \E w \in Words : BuildInit(w)
    /\ MassIdle

NextBuild ==
    \/ PopRootEmpty
    \/ PopRootSingle
    \/ PopRootDouble
    \/ PopRootMark

SpecBuild == InitBuild /\ [][NextBuild]_vars

\* One run of calculate_relative_molecular_mass, on every formula.
InitMass ==
    /\ SpellInit([word |-> <<>>, symbols |-> Omitted], "idle")
    /\ BuildIdle
    /\ \E f \in Formulas : MassInit(f)

NextMass ==
    \/ MassIterate
    \/ MassValueError
    \/ MassKeyError
    \/ MassReturn

SpecMass == InitMass /\ [][NextMass]_vars

(***************************************************************************)
(* What the claims speak of, stated without the graph.                     *)
(***************************************************************************)
Range(q) == {q[k] : k \in 1..Len(q)}

\* The word with every character 0-9 deleted.
DeleteDigits(w) == SelectSeq(w, LAMBDA c : c \notin 48..57)

\* The ways to cut a length n into consecutive pieces of length 1 or 2.
RECURSIVE Cuts(_)
Cuts(n) ==
    IF n = 0 THEN {<<>>}
    ELSE {<<1>> \o c : c \in Cuts(n - 1)}
         \cup (IF n >= 2 THEN {<<2>> \o c : c \in Cuts(n - 2)} ELSE {})

\* The pieces of w a cut makes, left to right.
RECURSIVE Pieces(_, _)
Pieces(w, cut) ==
    IF cut = <<>> THEN <<>>
    ELSE <<SubSeq(w, 1, Head(cut))>> \o Pieces(SubSeq(w, Head(cut) + 1, Len(w)), Tail(cut))

\* The segmentations of w over the symbol set S: gap-free, non-overlapping
\* pieces of length 1 or 2, each a symbol once capitalized.
Segmentations(w, S) ==
    {p \in {Pieces(w, c) : c \in Cuts(Len(w))} :
        \A k \in 1..Len(p) : Capitalize(p[k]) \in S}

\* The spelling of a segmentation: its pieces capitalized, in order.
SpellingOf(p) == [k \in 1..Len(p) |-> Capitalize(p[k])]

\* ret is exactly the spellings of w over S, one entry per segmentation.
ExactlySegmentations(w, S) ==
    /\ Range(ret) = {SpellingOf(p) : p \in Segmentations(w, S)}
    /\ Len(ret) = Cardinality(Segmentations(w, S))

Returned == pc = "returned"
ReturnedDefault == pc = "returned" /\ ~args.symbols.passed

(***************************************************************************)
(* C1                                                                      *)
(***************************************************************************)
\* C1, as claimed: for every word, a call of spell over the built-in table
\* returns exactly one tuple per segmentation of the digit-stripped word,
\* and no other tuple.  The empty word has one segmentation, the empty one.
C1_AsClaimed ==
    ReturnedDefault => ExactlySegmentations(DeleteDigits(args.word), ELEMENTS)

\* C1, amended: for every word whose digit-stripped form is not empty, a call
\* of spell over the built-in table returns exactly one tuple per
\* segmentation of the digit-stripped word and no other tuple (the empty
\* list when there is none); for a word that is empty after digit stripping
\* it returns the empty list.
C1_Segmentations ==
    ReturnedDefault =>
        IF DeleteDigits(args.word) # <<>>
        THEN ExactlySegmentations(DeleteDigits(args.word), ELEMENTS)
        ELSE ret = <<>>

\* A word with a digit and several spellings has been spelled.
C1_Witness ==
    /\ ReturnedDefault
    /\ \E k \in 1..Len(args.word) : IsDigit(args.word[k])
    /\ Len(ret) >= 2

(***************************************************************************)
(* C2                                                                      *)
(***************************************************************************)
\* C2: a call of spell with a symbol set S of the caller's returns exactly
\* the spellings of the digit-stripped word over S, every symbol of them a
\* member of S.  (Stated for the words that are not empty once stripped; C7
\* is about the others.)
C2_CustomSymbols ==
    (Returned /\ args.symbols.passed /\ DeleteDigits(args.word) # <<>>) =>
        /\ \A k \in 1..Len(ret) : \A j \in 1..Len(ret[k]) : ret[k][j] \in args.symbols.set
        /\ ExactlySegmentations(DeleteDigits(args.word), args.symbols.set)

(***************************************************************************)
(* C3                                                                      *)
(***************************************************************************)
\* C3: the list spell returns is in strictly descending order of its tuples:
\* each entry is strictly greater than the next, so none appears twice.
C3_StrictlyDescending ==
    Returned => \A k \in 1..(Len(ret) - 1) : TupleLess(ret[k + 1], ret[k])

\* "coco": Co Co, Co C O, C O Co, C O C O, in that order.
C3_Witness ==
    /\ Returned
    /\ Len(ret) = 4
    /\ ret[1] = <<<<67, 111>>, <<67, 111>>>>
    /\ ret[4] = <<<<67>>, <<79>>, <<67>>, <<79>>>>

(***************************************************************************)
(* C4                                                                      *)
(***************************************************************************)
\* C4: spell(w) returns what spell returns for w with every digit deleted,
\* wherever the digits stand and however many there are.
C4_DigitsIgnored ==
    Returned => ret = SpellBody(DeleteDigits(args.word), SymbolsOf(args.symbols), path_default)

\* A word with two digits, not side by side, that has a spelling.
C4_Witness ==
    /\ Returned
    /\ \E j, k \in 1..Len(args.word) :
          k > j + 1 /\ IsDigit(args.word[j]) /\ IsDigit(args.word[k])
    /\ ret # <<>>

(***************************************************************************)
(* C7                                                                      *)
(***************************************************************************)
\* C7, as claimed: for a word empty after digit stripping the builder records
\* the start sentinel next to the end sentinel and spell returns the one
\* empty spelling, a list holding one empty tuple.
C7_AsClaimed ==
    (Returned /\ DeleteDigits(args.word) = <<>>) =>
        /\ None \in firsts(g) \/ None \in lasts(g)
        /\ ret = << <<>> >>

\* C7, amended: for a word empty after digit stripping add_edge(None, None)
\* records nothing, so the graph built has no first, no last and no edge, and
\* spell returns the empty list, the value it returns for a word that has no
\* segmentation.
C7_EmptyWord ==
    (Returned /\ DeleteDigits(args.word) = <<>>) =>
        /\ g = Graph
        /\ firsts(g) = {} /\ lasts(g) = {}
        /\ ret = <<>>

\* A word of digits only has been spelled.
C7_Witness ==
    /\ Returned
    /\ args.word # <<>>
    /\ DeleteDigits(args.word) = <<>>

(***************************************************************************)
(* C5                                                                      *)
(***************************************************************************)
\* Two argument tuples that agree once the digits of the word are deleted.
SameStripped(a, b) ==
    DeleteDigits(a.word) = DeleteDigits(b.word) /\ a.symbols = b.symbols

\* C5, as claimed: the memo is keyed by (digit-stripped word, symbol set):
\* it holds one entry per distinct digit-stripped word and symbol set, and a
\* graph is built once for each of them.
C5_AsClaimed ==
    /\ \A a, b \in DOMAIN cache : SameStripped(a, b) => a = b
    /\ builds = Cardinality({[word |-> DeleteDigits(a.word), symbols |-> a.symbols] :
                                a \in called})

\* C5, amended: the memo is keyed by the arguments as passed, the word with
\* its digits: it holds one entry per distinct (word, symbols) argument
\* tuple that was called, a graph is built once for each of them, so a call
\* with the arguments of an earlier call is served from the memo without
\* building a graph, and a call whose word equals an earlier one's only after
\* digit stripping builds a graph again and returns an equal list.
C5_KeyedByArguments ==
    /\ DOMAIN cache = called
    /\ builds = Cardinality(called)
    /\ \A a, b \in DOMAIN cache : SameStripped(a, b) => cache[a] = cache[b]

\* A call was served from the memo, which holds co and c2o side by side.
C5_Witness ==
    /\ Returned /\ hit
    /\ \E a, b \in DOMAIN cache : a # b /\ SameStripped(a, b) /\ cache[a] # <<>>
    /\ builds >= 2

(***************************************************************************)
(* C6                                                                      *)
(***************************************************************************)
\* C6: every call returns what the first call with the same arguments
\* returned, and no call changes the memo's entry for other arguments or the
\* list that the default of find_all_paths holds.
C6_NoCrossContamination ==
    /\ [](Returned => (args \in DOMAIN firstRet /\ ret = firstRet[args]))
    /\ [](path_default = <<>>)
    /\ [][\A k \in DOMAIN cache : k \in DOMAIN cache' /\ cache'[k] = cache[k]]_vars

\* A repeated call has returned while the memo held other words' results.
C6_Witness ==
    /\ Returned /\ hit
    /\ Cardinality({a.word : a \in DOMAIN cache}) >= 3
    /\ ret # <<>>

(***************************************************************************)
(* C8                                                                      *)
(***************************************************************************)
EndOf(n) == n.position + Len(n.value)

NodesOf(gr) ==
    ((DOMAIN gr.children_of) \cup (DOMAIN gr.parents_of)
        \cup UNION {gr.children_of[k] : k \in DOMAIN gr.children_of}
        \cup UNION {gr.parents_of[k] : k \in DOMAIN gr.parents_of}) \ {None}

\* The nodes reached from the set F in at most n steps down the graph.
RECURSIVE ReachedFrom(_, _, _)
ReachedFrom(gr, F, n) ==
    IF n = 0 THEN F
    ELSE ReachedFrom(gr, F \cup UNION {Get(gr.children_of, x) : x \in F}, n - 1)

Acyclic(gr) ==
    \A n \in NodesOf(gr) :
        n \notin ReachedFrom(gr, Get(gr.children_of, n), Cardinality(NodesOf(gr)))

\* The start-to-end paths of the graph, as spell enumerates them.
StartToEndPaths(gr) ==
    UNION {Range(find_all_paths(gr.children_of, f, l, <<>>)) :
              <<f, l>> \in firsts(gr) \X lasts(gr)}

\* A path that is one gap-free, overlap-free segmentation of the word.
IsSegmentationOf(path, w) ==
    /\ path # <<>>
    /\ path[1].position = 0
    /\ \A k \in 1..(Len(path) - 1) : path[k + 1].position = EndOf(path[k])
    /\ EndOf(path[Len(path)]) = Len(w)
    /\ \A k \in 1..Len(path) :
          path[k].value = SubSeq(w, path[k].position + 1, EndOf(path[k]))

\* C8: in every state during and after build_spelling_graph, a token-to-token
\* edge (A, B) has B.position = A.position + len(A.value), a token next to
\* the start has position 0 and a token next to the end ends where the word
\* ends; the graph has no cycle, and every start-to-end path is one gap-free,
\* overlap-free segmentation of the whole word.
C8_PositionsAdvance ==
    /\ \A p \in DOMAIN graph.children_of : \A c \in graph.children_of[p] :
          /\ c # None
          /\ c.position = (IF p = None THEN 0 ELSE EndOf(p))
    /\ \A c \in DOMAIN graph.parents_of : \A p \in graph.parents_of[c] :
          /\ p # None
          /\ EndOf(p) = (IF c = None THEN Len(bword) ELSE c.position)
    /\ Acyclic(graph)
    /\ \A path \in StartToEndPaths(graph) : IsSegmentationOf(path, bword)

\* The build of a word with two firsts and two lasts has ended.
C8_Witness ==
    /\ stack = <<>>
    /\ Cardinality(firsts(graph)) = 2
    /\ Cardinality(lasts(graph)) = 2
    /\ Cardinality(StartToEndPaths(graph)) >= 3

(***************************************************************************)
(* C9                                                                      *)
(***************************************************************************)
\* pop_root without `if remaining not in processed`: every arrival recurses.
RECURSIVE PopRootNoMemo(_, _, _, _, _)
PopRootNoMemo(gr, remaining, position, previous_root, symbols) ==
    IF remaining = <<>> THEN AddEdge(gr, previous_root, None)
    ELSE
      LET single_root == Node(SubSeq(remaining, 1, 1), position)
          g1 == IF Capitalize(single_root.value) \in symbols
                THEN PopRootNoMemo(AddEdge(gr, previous_root, single_root),
                                   SubSeq(remaining, 2, Len(remaining)),
                                   position + 1, single_root, symbols)
                ELSE gr
          double_root == Node(SubSeq(remaining, 1, 2), position)
      IN  IF Len(remaining) >= 2 /\ Capitalize(double_root.value) \in symbols
          THEN PopRootNoMemo(AddEdge(g1, previous_root, double_root),
                             SubSeq(remaining, 3, Len(remaining)),
                             position + 2, double_root, symbols)
          ELSE g1

\* The edges previous -> token that a call of pop_root which has reached
\* `at` must have added.
IncomingAdded(f) ==
    LET single_root == Node(SubSeq(f.remaining, 1, 1), f.position)
        double_root == Node(SubSeq(f.remaining, 1, 2), f.position)
    IN  /\ (f.at \in {"double", "mark"} /\ Capitalize(single_root.value) \in ELEMENTS)
              => single_root \in Get(graph.children_of, f.previous_root)
        /\ (f.at = "mark" /\ Len(f.remaining) >= 2
              /\ Capitalize(double_root.value) \in ELEMENTS)
              => double_root \in Get(graph.children_of, f.previous_root)

\* C9: within one build at most one arrival at a non-empty suffix recurses
\* out of it; an arrival at a processed suffix adds its incoming edges and
\* makes no recursive call; every suffix arrived at, a dead end too, is
\* marked processed; and the graph built equals the one the same recursion
\* builds without the memo.
C9_MemoOnSuffix ==
    /\ \A r \in DOMAIN expansions : expansions[r] <= 1
    /\ \A k \in 1..Len(stack) :
          /\ IncomingAdded(stack[k])
          /\ stack[k].remaining \in processed =>
                (~stack[k].recursed /\ k = Len(stack))
    /\ stack = <<>> =>
          /\ processed = arrived
          /\ graph = PopRootNoMemo(Graph, bword, 0, None, ELEMENTS)

\* A later arrival at a processed suffix is about to return, its edge added,
\* while a dead-end suffix is already processed.
C9_Witness ==
    /\ stack # <<>>
    /\ Top.at = "mark"
    /\ Top.remaining \in processed
    /\ Get(graph.children_of, Top.previous_root) # {}
    /\ \E r \in processed : r \notin DOMAIN expansions

\* The step-by-step build ends with the graph and the processed set that
\* build_spelling_graph, as a function, computes.
BuildStepsAgree ==
    stack = <<>> =>
        LET st == PopRoot([graph |-> Graph, processed |-> {}], bword, 0, None, ELEMENTS)
        IN  graph = st.graph /\ processed = st.processed

(***************************************************************************)
(* C10                                                                     *)
(***************************************************************************)
\* The tokens of a formula from index k (from 0) on: one character, a
\* following lowercase letter if there is one, then a single following digit
\* character if there is one (digit: the character, or 0 when absent).
RECURSIVE TokensFrom(_, _)
TokensFrom(f, k) ==
    IF k >= Len(f) THEN <<>>
    ELSE LET two == k + 2 <= Len(f) /\ IsLower(f[k + 2])
             n == IF two THEN 2 ELSE 1
             counted == k + n + 1 <= Len(f) /\ IsDigit(f[k + n + 1])
         IN  <<[element |-> SubSeq(f, k + 1, k + n),
                digit |-> IF counted THEN f[k + n + 1] ELSE 0]>>
             \o TokensFrom(f, k + n + (IF counted THEN 1 ELSE 0))

\* The count of a token: its digit's value, 1 when it has no digit.
CountOf(t) == IF t.digit = 0 THEN 1 ELSE t.digit - 48
\* A token whose digit character is no decimal digit: it has no count.
Uncountable(t) == t.digit # 0 /\ t.digit \notin 48..57
Unknown(t) == t.element \notin DOMAIN mendeleev_table
Sound(ts) == \A k \in 1..Len(ts) : ~Uncountable(ts[k]) /\ ~Unknown(ts[k])

RECURSIVE MassOf(_)
MassOf(ts) ==
    IF ts = <<>> THEN 0
    ELSE mendeleev_table[Head(ts).element] * CountOf(Head(ts)) + MassOf(Tail(ts))

\* The index grows on every iteration of the loop.
IndexGrows == [][mpc' = "loop" => i' > i]_vars

\* A return gives the sum over all the tokens of the formula, all of them in
\* the table.
ReturnsFullSum ==
    mpc = "returned" =>
        /\ Sound(TokensFrom(formule, 0))
        /\ tokens = [k \in 1..Len(TokensFrom(formule, 0)) |->
                        <<TokensFrom(formule, 0)[k].element, CountOf(TokensFrom(formule, 0)[k])>>]
        /\ total_mass = MassOf(TokensFrom(formule, 0))

\* C10, as claimed: the index grows on every iteration; the call returns the
\* sum of mass * count over all the tokens of the formula, all in the table,
\* or raises the lookup error (KeyError) to the caller.
C10_AsClaimed ==
    /\ []ReturnsFullSum
    /\ [](mpc = "raised" => (error = "KeyError" /\ element \notin DOMAIN mendeleev_table))
    /\ IndexGrows

\* C10, amended: the index grows on every iteration; the call returns the sum
\* of mass * count over all the tokens of the formula, all in the table, or
\* raises to the caller the error of the first token that fails: the
\* KeyError of the lookup, for an element outside the table (for which
\* get_relative_atomic_mass answers 0), or the ValueError of int(), for a
\* count character str.isdigit accepts and int() rejects.  No total that
\* skips a token is returned.
C10_MassOrRaise ==
    /\ []ReturnsFullSum
    /\ [](mpc = "raised" =>
            LET ts == TokensFrom(formule, 0)
                t == ts[Len(tokens) + 1]
            IN  /\ Len(tokens) < Len(ts)
                /\ Sound(SubSeq(ts, 1, Len(tokens)))
                /\ t.element = element
                /\ IF Uncountable(t) THEN error = "ValueError"
                   ELSE /\ error = "KeyError"
                        /\ Unknown(t)
                        /\ get_relative_atomic_mass(element) = 0)
    /\ IndexGrows

\* Li2H has returned 15.
C10_Witness ==
    /\ mpc = "returned"
    /\ Len(tokens) = 2
    /\ tokens[1] = <<<<76, 105>>, 2>>
    /\ total_mass = 15

=============================================================================
